---- MODULE Spec2Model ----
(***************************************************************************)
(* Access control plugin: the relational store (accessControlObjects,      *)
(* accessControlOwners, accessControlRules, aclMetadata), the ledger       *)
(* operations of ACLAccessPolicy (grant, revoke, addAccessCtlObject), the  *)
(* verify methods of the two built-in policies, and AppPlugin.start, which *)
(* builds the policy instances after checking the schema version.          *)
(*                                                                         *)
(* Whole calls act on db, the tables as the caller's connection sees them *)
(* (the committed rows plus those pending in its open transaction).  The   *)
(* calls of concurrent callers run statement by statement on connections   *)
(* of their own (sess); db is then the committed tables, and each          *)
(* connection adds what its open transaction holds.  The three             *)
(* access-control tables exist in every state; the marker table            *)
(* aclMetadata is tracked on its own, and upgradeSchema moves it from      *)
(* version 1 to version 2.                                                 *)
(***************************************************************************)
EXTENDS Integers, FiniteSets, Sequences, Bags, TLC

\* ------------------------------------------------------------------ bounds
\* Highest AUTO_INCREMENT value accessControlObjects.id may hand out.
MaxObjId == 2

\* Python's None, as a principal identity / SQL NULL.
NULL == 0

\* Rows of the host's users table (principal identities that exist).
Users == {7, 9}
\* Principal identities a caller may pass: the users, one identity that is
\* no row of users, and None.
Principals == Users \cup {8, NULL}
ObjectClasses == {"document"}
ObjectIds == {42, 43}
AccessTypes == {"read", "edit"}

\* aclSchemaVersion = 2, compared as str(aclSchemaVersion)
aclSchemaVersion == "2"

\* What SHOW TABLES LIKE "aclMetadata" and the SELECT of the version row can
\* find: no table, a table without the version row, or the row's value.
MetadataStates == {"notable", "norow", "1", "2", "3"}

VARIABLES
    db,          \* [objects, owners, rules]: the tables as the connection sees them
    nextObjId,   \* AUTO_INCREMENT counter of accessControlObjects
    aclMetadata, \* the marker: an element of MetadataStates
    objUnique,   \* whether UNIQUE(objectClass, objectId) is in force (version 2 layout)
    context,     \* the application context start() was given, with the policies it registered
    observed,    \* what the last start() read from aclMetadata ("unread" before)
    call,        \* the last call made and its outcome
    lastOp,      \* per watched (objectId, granteeId, accessType): the last of
                 \* grant and revoke that returned normally for it, or "none"
    sess         \* per connection of a concurrent caller: the ledger call it
                 \* is running statement by statement, and its open transaction

vars ==
    <<db, nextObjId, aclMetadata, objUnique, context, observed, call, lastOp, sess>>


\* ------------------------------------------------------------ table rows
ObjectRow(id, objectClass, objectId) ==
    [id |-> id, objectClass |-> objectClass, objectId |-> objectId]

OwnerRow(accessCtlObjectId, ownerId) ==
    [accessCtlObjectId |-> accessCtlObjectId, ownerId |-> ownerId]

\* A row of accessControlRules without its surrogate id column, which no
\* statement of the program reads; the table is a bag of such rows.
RuleRow(accessCtlObjectId, granteeId, accessType) ==
    [accessCtlObjectId |-> accessCtlObjectId, granteeId |-> granteeId,
     accessType |-> accessType]

EmptyTables == [objects |-> {}, owners |-> {}, rules |-> EmptyBag]

\* SELECT id FROM accessControlObjects WHERE objectClass = %s AND objectId = %s
SelectObjectIds(d, objectClass, objectId) ==
    {o.id : o \in {x \in d.objects :
                     x.objectClass = objectClass /\ x.objectId = objectId}}

\* -------------------------------------------------- statements that write
\* Mutant: accessControlObjects has no UNIQUE key.
InsertObjectErrorNoUnique(d, unique, row) == "none"

\* The error an INSERT INTO accessControlObjects raises ("none": the row is
\* inserted): the UNIQUE(objectClass, objectId) key of the version 2 layout.
InsertObjectError(d, unique, row) ==
    IF unique /\ SelectObjectIds(d, row.objectClass, row.objectId) # {}
    THEN "IntegrityError"
    ELSE "none"

\* The error an INSERT INTO accessControlOwners raises: NOT NULL on ownerId,
\* the UNIQUE key, the foreign keys to users and accessControlObjects.  All
\* four are pymysql.IntegrityError.
InsertOwnerError(d, row) ==
    IF \/ row.ownerId = NULL
       \/ row \in d.owners
       \/ row.ownerId \notin Users
       \/ row.accessCtlObjectId \notin {o.id : o \in d.objects}
    THEN "IntegrityError"
    ELSE "none"

\* Mutant: accessControlRules has no UNIQUE key.
InsertRuleErrorNoUnique(d, row) ==
    IF row.granteeId = NULL THEN "BAD_NULL"
    ELSE IF row.granteeId \notin Users THEN "NO_REFERENCED_ROW"
    ELSE IF row.accessCtlObjectId \notin {o.id : o \in d.objects}
         THEN "NO_REFERENCED_ROW"
    ELSE "none"

\* The MySQL error an INSERT INTO accessControlRules raises ("none": the row
\* is inserted): NOT NULL on granteeId (1048), the UNIQUE key on
\* (accessCtlObjectId, granteeId, accessType) (1062), the foreign keys (1452).
InsertRuleError(d, row) ==
    IF row.granteeId = NULL THEN "BAD_NULL"
    ELSE IF BagIn(row, d.rules) THEN "DUP_ENTRY"
    ELSE IF row.granteeId \notin Users THEN "NO_REFERENCED_ROW"
    ELSE IF row.accessCtlObjectId \notin {o.id : o \in d.objects}
         THEN "NO_REFERENCED_ROW"
    ELSE "none"

\* pymysql's exception class for a MySQL error: 1048, 1062 and 1452 are all
\* mapped to IntegrityError.
ExceptionClass(err) ==
    IF err \in {"BAD_NULL", "DUP_ENTRY", "NO_REFERENCED_ROW"}
    THEN "IntegrityError"
    ELSE err

WithObject(d, row) == [d EXCEPT !.objects = @ \cup {row}]
WithOwner(d, row) == [d EXCEPT !.owners = @ \cup {row}]
WithRule(d, row) == [d EXCEPT !.rules = @ (+) SetToBag({row})]

\* Mutant: the DELETE leaves accessType out of its WHERE clause.
DeleteRuleAnyType(d, row) ==
    [d EXCEPT !.rules =
        [r \in {x \in DOMAIN @ :
                  ~ (/\ x.accessCtlObjectId = row.accessCtlObjectId
                     /\ x.granteeId = row.granteeId)} |-> @[r]]]

\* Mutant: the DELETE takes the owner row of the grantee with it.
DeleteRuleAndOwner(d, row) ==
    [d EXCEPT !.rules = [r \in (DOMAIN @) \ {row} |-> @[r]],
              !.owners = @ \ {OwnerRow(row.accessCtlObjectId, row.granteeId)}]

\* DELETE FROM accessControlRules WHERE accessCtlObjectId = %s AND
\* granteeId = %s AND accessType = %s: every matching row goes.
DeleteRule(d, row) ==
    [d EXCEPT !.rules = [r \in (DOMAIN @) \ {row} |-> @[r]]]

\* ------------------------------------------------------- ledger operations
\* cursor.fetchone() on the SELECT of the object's id: one of the rows it
\* matched, in no stated order, or None.
fetchone(ids) == IF ids = {} THEN {NULL} ELSE ids

\* Mutant: the check of the fetched row is missing.
ObjectNotFoundNever(row) == FALSE

\* if not row: raise ACLAccessPolicy.Error('object not found')
ObjectNotFound(row) == row = NULL

\* except pymysql.IntegrityError: pass
GrantAbsorbs(err) == ExceptionClass(err) = "IntegrityError"

\* Mutant: the close is at the end of the try block, not in a finally.
CursorClosedOnReturnOnly(closeCursor, raised) == closeCursor /\ raised = "none"

\* finally: if closeCursor: cursor.close().  Whether the operation has
\* closed the cursor it used when it is left raising raised ("none": by
\* returning).
CursorClosedAtExit(closeCursor, raised) == closeCursor

\* ACLAccessPolicy.grant.  handle says what the caller passed: "none"
\* (neither database nor cursor), "database" or "cursor".  The result is the
\* set of outcomes [db, raised, sqlerr, affected, closed]: sqlerr is the
\* MySQL error of the INSERT, affected the number of rows the call inserted
\* or deleted, closed whether the operation closed the cursor it used.
grant(d, objectClass, objectId, granteeId, accessType, handle) ==
    IF handle = "none"
    THEN {[db |-> d, raised |-> "MissingArgument", sqlerr |-> "none",
           affected |-> 0, closed |-> FALSE]}
    ELSE LET closeCursor == (handle = "database")
             ids == SelectObjectIds(d, objectClass, objectId)
         IN  {IF ObjectNotFound(accessCtlObjectId)
              THEN [db |-> d, raised |-> "ACLAccessPolicy.Error",
                    sqlerr |-> "none", affected |-> 0,
                    closed |-> CursorClosedAtExit(closeCursor,
                                                  "ACLAccessPolicy.Error")]
              ELSE LET row == RuleRow(accessCtlObjectId, granteeId, accessType)
                       err == InsertRuleError(d, row)
                       raised == IF err = "none" \/ GrantAbsorbs(err)
                                 THEN "none" ELSE ExceptionClass(err)
                   IN  [db |-> IF err = "none" THEN WithRule(d, row) ELSE d,
                        raised |-> raised,
                        sqlerr |-> err,
                        affected |-> IF err = "none" THEN 1 ELSE 0,
                        closed |-> CursorClosedAtExit(closeCursor, raised)]
              : accessCtlObjectId \in fetchone(ids)}

\* ACLAccessPolicy.revoke.
revoke(d, objectClass, objectId, granteeId, accessType, handle) ==
    IF handle = "none"
    THEN {[db |-> d, raised |-> "MissingArgument", sqlerr |-> "none",
           affected |-> 0, closed |-> FALSE]}
    ELSE LET closeCursor == (handle = "database")
             ids == SelectObjectIds(d, objectClass, objectId)
         IN  {IF ObjectNotFound(accessCtlObjectId)
              THEN [db |-> d, raised |-> "ACLAccessPolicy.Error",
                    sqlerr |-> "none", affected |-> 0,
                    closed |-> CursorClosedAtExit(closeCursor,
                                                  "ACLAccessPolicy.Error")]
              ELSE LET row == RuleRow(accessCtlObjectId, granteeId, accessType)
                       after == DeleteRule(d, row)
                   IN  [db |-> after, raised |-> "none", sqlerr |-> "none",
                        affected |-> BagCardinality(d.rules)
                                       - BagCardinality(after.rules),
                        closed |-> CursorClosedAtExit(closeCursor, "none")]
              : accessCtlObjectId \in fetchone(ids)}

\* Faults the storage may raise on its own at a statement of grant or
\* revoke (a lock wait timeout, a lost connection): 0 is none, 1 the SELECT,
\* 2 the INSERT or DELETE.
LedgerFaults == 0 .. 2

\* grant or revoke, whose outcomes without fault are outs, under fault: the
\* statement raises OperationalError, which no except clause of the
\* operation catches, and the tables stay as they were.
WithStorageFault(outs, d, handle, fault) ==
    LET failed == [db |-> d, raised |-> "OperationalError", sqlerr |-> "none",
                   affected |-> 0,
                   closed |-> CursorClosedAtExit(handle = "database",
                                                 "OperationalError")]
    IN  IF fault = 0 \/ handle = "none" THEN outs
        ELSE IF fault = 1 THEN {failed}
        ELSE {IF o.raised = "ACLAccessPolicy.Error" THEN o ELSE failed
              : o \in outs}

\* Faults the storage may raise on its own at a statement of
\* addAccessCtlObject (a lock wait timeout, a deadlock): 0 is none, 1 the
\* object insert, 2 the owner insert, 3 and 4 the two rows of executemany.
Faults == 0 .. 4

\* Mutant: the second rule of a new object has another access type.
OwnerAccessTypesReadWrite == <<"read", "write">>

\* The access rules of a new object: owner has read and edit access.
OwnerAccessTypes == <<"read", "edit">>

\* Mutant: the rollback is missing, the rows written stay.
RollbackNothing(atBegin, now) == now

\* What rollback() leaves of the connection's tables: those at BEGIN (BEGIN
\* itself commits whatever the connection had pending).
Rollback(atBegin, now) == atBegin

\* ACLAccessPolicy.addAccessCtlObject.  d is the connection's tables at the
\* call, nid the next AUTO_INCREMENT value, which an INSERT uses up whether
\* or not it succeeds or is rolled back.  The result is the set of outcomes
\* [db, nextObjId, raised, returned].
addAccessCtlObject(d, nid, unique, objectClass, objectId, ownerId, transaction, fault) ==
    LET acoId == nid
        e1 == IF fault = 1 THEN "OperationalError"
              ELSE InsertObjectError(d, unique,
                                     ObjectRow(acoId, objectClass, objectId))
        d1 == WithObject(d, ObjectRow(acoId, objectClass, objectId))
        e2 == IF fault = 2 THEN "OperationalError"
              ELSE InsertOwnerError(d1, OwnerRow(acoId, ownerId))
        d2 == WithOwner(d1, OwnerRow(acoId, ownerId))
        e3 == IF fault = 3 THEN "OperationalError"
              ELSE ExceptionClass(InsertRuleError(d2,
                                      RuleRow(acoId, ownerId, OwnerAccessTypes[1])))
        d3 == WithRule(d2, RuleRow(acoId, ownerId, OwnerAccessTypes[1]))
        e4 == IF fault = 4 THEN "OperationalError"
              ELSE ExceptionClass(InsertRuleError(d3,
                                      RuleRow(acoId, ownerId, OwnerAccessTypes[2])))
        d4 == WithRule(d3, RuleRow(acoId, ownerId, OwnerAccessTypes[2]))
        \* the except branch: rollback when transaction, and re-raise
        failed(err, now, nid1) ==
            [db |-> IF transaction THEN Rollback(d, now) ELSE now,
             nextObjId |-> nid1,
             raised |-> err, returned |-> NULL]
    IN  IF e1 # "none"
        THEN {failed(e1, d, IF fault = 1 THEN nid ELSE nid + 1)}
        ELSE IF e2 # "none" THEN {failed(e2, d1, nid + 1)}
        ELSE IF e3 # "none" THEN {failed(e3, d2, nid + 1)}
        \* executemany runs the rows one statement each, or as one
        \* multi-row INSERT that fails as a whole
        ELSE IF e4 # "none"
        THEN {failed(e4, d3, nid + 1), failed(e4, d2, nid + 1)}
        ELSE {[db |-> d4,
               nextObjId |-> nid + 1,
               raised |-> "none", returned |-> acoId]}

\* addAccessCtlObject as its caller reaches it.  database is a required
\* parameter and there is none for a cursor: with closing(database.cursor())
\* raises AttributeError on None and on a cursor object.
addAccessCtlObjectGiven(handle, d, nid, unique, objectClass, objectId, ownerId, transaction, fault) ==
    IF handle # "database"
    THEN {[db |-> d, nextObjId |-> nid, raised |-> "AttributeError",
           returned |-> NULL]}
    ELSE addAccessCtlObject(d, nid, unique, objectClass, objectId, ownerId,
                            transaction, fault)

\* ------------------------------------------------------------- policies
\* Mutant: the instance keeps the class default instead of the exception
\* class it is given.
AccessPolicyDefaultForbidden(cls, verifier, forbiddenExceptionCls) ==
    [cls |-> cls, verifier |-> verifier, forbiddenExceptionCls |-> "Forbidden"]

\* AccessPolicy.__init__
AccessPolicy(cls, verifier, forbiddenExceptionCls) ==
    [cls |-> cls, verifier |-> verifier,
     forbiddenExceptionCls |-> forbiddenExceptionCls]

\* Mutant: the SELECT lacks accessControlObjects.id = accessCtlObjectId, and
\* joins every object of the pair with every rule of the user.
ACLAccessPolicy_verifyNoJoin(self, d, userId, objectClass, objectId, accessType) ==
    IF userId = NULL
    THEN {[raised |-> self.forbiddenExceptionCls, returned |-> NULL]}
    ELSE LET rows == {r \in BagToSet(d.rules) :
                        /\ SelectObjectIds(d, objectClass, objectId) # {}
                        /\ r.granteeId = userId
                        /\ r.accessType = accessType}
         IN  IF rows = {}
             THEN {[raised |-> self.forbiddenExceptionCls, returned |-> NULL]}
             ELSE {[raised |-> "none", returned |-> row.accessCtlObjectId]
                   : row \in rows}

\* ACLAccessPolicy.verify: the outcomes [raised, returned].
ACLAccessPolicy_verify(self, d, userId, objectClass, objectId, accessType) ==
    IF userId = NULL
    THEN {[raised |-> self.forbiddenExceptionCls, returned |-> NULL]}
    ELSE LET rows == {r \in BagToSet(d.rules) :
                        /\ r.accessCtlObjectId
                              \in SelectObjectIds(d, objectClass, objectId)
                        /\ r.granteeId = userId
                        /\ r.accessType = accessType}
         IN  IF rows = {}
             THEN {[raised |-> self.forbiddenExceptionCls, returned |-> NULL]}
             ELSE {[raised |-> "none", returned |-> row.accessCtlObjectId]
                   : row \in rows}

\* OwnerAccessPolicy.verify: the outcomes [raised, returned].
OwnerAccessPolicy_verify(self, d, userId, objectClass, objectId) ==
    IF userId = NULL
    THEN {[raised |-> self.forbiddenExceptionCls, returned |-> NULL]}
    ELSE LET rows == {r \in d.owners :
                        /\ r.accessCtlObjectId
                              \in SelectObjectIds(d, objectClass, objectId)
                        /\ r.ownerId = userId}
         IN  IF rows = {}
             THEN {[raised |-> self.forbiddenExceptionCls, returned |-> NULL]}
             ELSE {[raised |-> "none", returned |-> row.accessCtlObjectId]
                   : row \in rows}

\* -------------------------------------------------------- policy registry
NameOrder == <<"aclAccessPolicy", "ownerAccessPolicy", "customPolicy">>

\* The built-in entries of accessPolicyClasses in start.
BuiltinPolicyClasses ==
    [n \in {"aclAccessPolicy", "ownerAccessPolicy"} |->
        IF n = "aclAccessPolicy" THEN "ACLAccessPolicy" ELSE "OwnerAccessPolicy"]

\* dict.update
Update(base, other) ==
    [n \in DOMAIN base \cup DOMAIN other |->
        IF n \in DOMAIN other THEN other[n] ELSE base[n]]

\* The configurations a host may put in the context it passes to start: the
\* defaults of Config, and policy classes and a forbidden exception of its own.
DefaultConfig ==
    [accessPolicyClasses |-> <<>>, forbiddenExceptionCls |-> "Forbidden"]
HostConfig ==
    [accessPolicyClasses |-> [n \in {"customPolicy"} |-> "CustomPolicy"],
     forbiddenExceptionCls |-> "HostForbidden"]

NoContext ==
    [accessPolicyClasses |-> <<>>, accessPolicyVerifier |-> "defaultVerifier",
     forbiddenExceptionCls |-> "Forbidden", policies |-> <<>>,
     shortcutAttrs |-> <<>>]

\* Mutant: the version row's value is not compared.
SchemaCheckNoCompare(metadata) ==
    IF metadata = "notable" THEN "SchemaNotInstalled"
    ELSE IF metadata = "norow" THEN "SchemaNotInstalled"
    ELSE "none"

\* Mutant: a table without version row is taken for a version mismatch.
SchemaCheckRowAsMismatch(metadata) ==
    IF metadata = "notable" THEN "SchemaNotInstalled"
    ELSE IF metadata # aclSchemaVersion THEN "SchemaVersionMismatch"
    ELSE "none"

\* What the cursor of start finds: SHOW TABLES LIKE "aclMetadata", then the
\* SELECT of the version row.  The exception start raises, "none" to go on.
SchemaCheck(metadata) ==
    IF metadata = "notable" THEN "SchemaNotInstalled"
    ELSE IF metadata = "norow" THEN "SchemaNotInstalled"
    ELSE IF metadata # aclSchemaVersion THEN "SchemaVersionMismatch"
    ELSE "none"

\* AppPlugin.start: [context, raised], context being the host's context ctx
\* as start leaves it.
start(ctx, metadata) ==
    LET err == SchemaCheck(metadata)
        accessPolicyClasses == Update(BuiltinPolicyClasses,
                                      ctx.accessPolicyClasses)
        InDict(n) == n \in DOMAIN accessPolicyClasses
    IN  IF err # "none"
        THEN [context |-> ctx, raised |-> err]
        ELSE [context |->
                [ctx EXCEPT
                   !.policies =
                      [n \in DOMAIN accessPolicyClasses |->
                          AccessPolicy(accessPolicyClasses[n],
                                       ctx.accessPolicyVerifier,
                                       ctx.forbiddenExceptionCls)],
                   !.shortcutAttrs = @ \o SelectSeq(NameOrder, InDict)],
              raised |-> "none"]

\* ------------------------------------------------------- schema upgrade
\* CommandLinePlugin.getSchemaVersion: the value of the version row of
\* aclMetadata, as MySQLPlugin reads it.
getSchemaVersion(metadata) == metadata

\* Two rows of accessControlObjects with the same (objectClass, objectId).
DuplicatePairs(d) ==
    \E a, b \in d.objects :
        a # b /\ a.objectClass = b.objectClass /\ a.objectId = b.objectId

\* Mutant: the UPDATE of the version row is missing.
upgradeFromV1SQLNoUpdate(d, metadata, unique) ==
    IF DuplicatePairs(d)
    THEN [aclMetadata |-> metadata, objUnique |-> unique,
          raised |-> "IntegrityError"]
    ELSE [aclMetadata |-> metadata, objUnique |-> TRUE, raised |-> "none"]

\* cursor.execute(upgradeFromV1SQL): ALTER TABLE ... ADD CONSTRAINT ... UNIQUE
\* fails with a duplicate-entry error (1062, IntegrityError) when two rows
\* share a pair, and the UPDATE after it is then not run; otherwise the key
\* is added and the version row set to '2'.
upgradeFromV1SQL(d, metadata, unique) ==
    IF DuplicatePairs(d)
    THEN [aclMetadata |-> metadata, objUnique |-> unique,
          raised |-> "IntegrityError"]
    ELSE [aclMetadata |-> "2", objUnique |-> TRUE, raised |-> "none"]

\* Mutant: the elif that turns away every version but 1 is missing.
upgradeSchemaAnyVersion(d, metadata, unique) ==
    LET currentVersion == getSchemaVersion(metadata)
    IN  IF currentVersion = "2"
        THEN [aclMetadata |-> metadata, objUnique |-> unique,
              raised |-> "none", printed |-> "up to date"]
        ELSE LET out == upgradeFromV1SQL(d, metadata, unique)
             IN  [aclMetadata |-> out.aclMetadata, objUnique |-> out.objUnique,
                  raised |-> out.raised,
                  printed |-> IF out.raised = "none"
                              THEN "successfully upgraded to 2" ELSE "-"]

\* CommandLinePlugin.upgradeSchema: [aclMetadata, objUnique, raised, printed],
\* printed being the message it prints ("-" when it raises before any).
upgradeSchema(d, metadata, unique) ==
    LET currentVersion == getSchemaVersion(metadata)
    IN  IF currentVersion = "2"
        THEN [aclMetadata |-> metadata, objUnique |-> unique,
              raised |-> "none", printed |-> "up to date"]
        ELSE IF currentVersion # "1"
        THEN [aclMetadata |-> metadata, objUnique |-> unique,
              raised |-> "none", printed |-> "only possible from version 1"]
        ELSE LET out == upgradeFromV1SQL(d, metadata, unique)
             IN  [aclMetadata |-> out.aclMetadata, objUnique |-> out.objUnique,
                  raised |-> out.raised,
                  printed |-> IF out.raised = "none"
                              THEN "successfully upgraded to 2" ELSE "-"]

\* ------------------------------------------------------------ the calls
NoCall ==
    [op |-> "none", objectClass |-> "-", objectId |-> 0, userId |-> NULL,
     accessType |-> "-", arg |-> "-", fault |-> 0,
     raised |-> "none", sqlerr |-> "none", affected |-> 0, returned |-> NULL,
     printed |-> "-", handle |-> "-", closed |-> FALSE]

\* The connections of concurrent callers.
Sessions == {"a", "b"}

\* A connection on which no call has been made.  pc is the statement the
\* call is at, txn whether the caller opened a transaction on the connection
\* before the call (otherwise every statement is committed as it runs), ins
\* and del the rows its open transaction has inserted and deleted, held the
\* rule keys that transaction has locked, log the transaction statements
\* the operation itself issued.
NoSession ==
    [pc |-> "idle", op |-> "none", objectId |-> NULL, userId |-> NULL,
     txn |-> FALSE,
     transaction |-> FALSE, fault |-> 0, acoId |-> NULL,
     ins |-> EmptyTables, del |-> {}, held |-> {}, log |-> <<>>,
     raised |-> "none", ended |-> "open"]

\* The ledger is run on a database whose tables are installed (the version
\* row exists: version 1 lacks the UNIQUE key on accessControlObjects, the
\* others have it); the other marker states are what start may find.
LayoutKnown == aclMetadata \in {"1", "2", "3"}

\* The initial states: empty tables under one of the marker states metas,
\* version 1 lacking the UNIQUE key on accessControlObjects; watched is the
\* set of <<objectClass, objectId, granteeId, accessType>> whose grant and
\* revoke calls lastOp follows.
InitWith(metas, watched) ==
    /\ db = EmptyTables
    /\ nextObjId = 1
    /\ aclMetadata \in metas
    /\ objUnique = (aclMetadata # "1")
    /\ context = NoContext
    /\ observed = "unread"
    /\ call = NoCall
    /\ lastOp = [t \in watched |-> "none"]
    /\ sess = [p \in Sessions |-> NoSession]

Noted(t, op, raised) ==
    IF t \in DOMAIN lastOp /\ raised = "none"
    THEN [lastOp EXCEPT ![t] = op]
    ELSE lastOp

\* In each action S is the record of the sets its inputs are drawn from
\* (grantTypes: the access types granted and revoked; accessTypes: those
\* verified).
Grant(S) ==
    /\ LayoutKnown
    /\ \E objectClass \in ObjectClasses, objectId \in S.objectIds,
          granteeId \in S.grantees, accessType \in S.grantTypes,
          handle \in S.handles, fault \in S.ledgerFaults :
         \E out \in WithStorageFault(grant(db, objectClass, objectId, granteeId,
                                           accessType, handle),
                                     db, handle, fault) :
           /\ db' = out.db
           /\ call' = [NoCall EXCEPT !.op = "grant",
                         !.objectClass = objectClass, !.objectId = objectId,
                         !.userId = granteeId, !.accessType = accessType,
                         !.arg = handle, !.handle = handle, !.fault = fault,
                         !.closed = out.closed,
                         !.raised = out.raised, !.sqlerr = out.sqlerr,
                         !.affected = out.affected]
           /\ lastOp' = Noted(<<objectClass, objectId, granteeId, accessType>>,
                              "grant", out.raised)
           /\ UNCHANGED <<nextObjId, aclMetadata, objUnique, context, observed, sess>>

Revoke(S) ==
    /\ LayoutKnown
    /\ \E objectClass \in ObjectClasses, objectId \in S.objectIds,
          granteeId \in S.grantees, accessType \in S.grantTypes,
          handle \in S.handles, fault \in S.ledgerFaults :
         \E out \in WithStorageFault(revoke(db, objectClass, objectId, granteeId,
                                            accessType, handle),
                                     db, handle, fault) :
           /\ db' = out.db
           /\ call' = [NoCall EXCEPT !.op = "revoke",
                         !.objectClass = objectClass, !.objectId = objectId,
                         !.userId = granteeId, !.accessType = accessType,
                         !.arg = handle, !.handle = handle, !.fault = fault,
                         !.closed = out.closed, !.raised = out.raised,
                         !.affected = out.affected]
           /\ lastOp' = Noted(<<objectClass, objectId, granteeId, accessType>>,
                              "revoke", out.raised)
           /\ UNCHANGED <<nextObjId, aclMetadata, objUnique, context, observed, sess>>

AddAccessCtlObject(S) ==
    /\ LayoutKnown
    /\ nextObjId <= MaxObjId
    /\ \E objectClass \in ObjectClasses, objectId \in S.objectIds,
          ownerId \in S.owners, transaction \in S.transactions,
          fault \in S.faults, handle \in S.handles :
         \E out \in addAccessCtlObjectGiven(handle, db, nextObjId, objUnique,
                                            objectClass, objectId, ownerId,
                                            transaction, fault) :
           /\ db' = out.db
           /\ nextObjId' = out.nextObjId
           /\ call' = [NoCall EXCEPT !.op = "addAccessCtlObject",
                         !.objectClass = objectClass, !.objectId = objectId,
                         !.userId = ownerId,
                         !.arg = IF transaction THEN "transaction"
                                 ELSE "notransaction",
                         !.fault = fault, !.handle = handle,
                         !.raised = out.raised, !.returned = out.returned]
           /\ UNCHANGED <<aclMetadata, objUnique, context, observed, lastOp, sess>>

\* context[name].verifyAccess(...) on an ACLAccessPolicy instance, through
\* defaultVerifier.
VerifyAccessACL(S) ==
    \E name \in DOMAIN context.policies :
      /\ context.policies[name].cls = "ACLAccessPolicy"
      /\ context.policies[name].verifier = "defaultVerifier"
      /\ \E userId \in S.users, objectClass \in ObjectClasses,
            objectId \in S.objectIds, accessType \in S.accessTypes :
           \E out \in ACLAccessPolicy_verify(context.policies[name], db, userId,
                                             objectClass, objectId, accessType) :
             /\ call' = [NoCall EXCEPT !.op = "aclVerify",
                           !.objectClass = objectClass, !.objectId = objectId,
                           !.userId = userId, !.accessType = accessType,
                           !.raised = out.raised, !.returned = out.returned]
             /\ UNCHANGED <<db, nextObjId, aclMetadata, objUnique, context,
                            observed, lastOp, sess>>

\* context[name].verifyAccess(...) on an OwnerAccessPolicy instance.
VerifyAccessOwner(S) ==
    \E name \in DOMAIN context.policies :
      /\ context.policies[name].cls = "OwnerAccessPolicy"
      /\ context.policies[name].verifier = "defaultVerifier"
      /\ \E userId \in S.users, objectClass \in ObjectClasses,
            objectId \in S.objectIds :
           \E out \in OwnerAccessPolicy_verify(context.policies[name], db,
                                               userId, objectClass, objectId) :
             /\ call' = [NoCall EXCEPT !.op = "ownerVerify",
                           !.objectClass = objectClass, !.objectId = objectId,
                           !.userId = userId,
                           !.raised = out.raised, !.returned = out.returned]
             /\ UNCHANGED <<db, nextObjId, aclMetadata, objUnique, context,
                            observed, lastOp, sess>>

\* The application starts the plugin, once per process: a start that raised
\* left no policy behind, and the process may be started again.
Start(S) ==
    /\ DOMAIN context.policies = {}
    /\ \E cfg \in S.configs :
         LET out == start([NoContext EXCEPT
                             !.accessPolicyClasses = cfg.accessPolicyClasses,
                             !.forbiddenExceptionCls = cfg.forbiddenExceptionCls],
                          aclMetadata)
         IN  /\ context' = out.context
             /\ observed' = aclMetadata
             /\ call' = [NoCall EXCEPT !.op = "start", !.raised = out.raised]
             /\ UNCHANGED <<db, nextObjId, aclMetadata, objUnique, lastOp, sess>>

\* The acl upgradeSchema command, on a database whose version row exists.
UpgradeSchema ==
    /\ aclMetadata \notin {"notable", "norow"}
    /\ LET out == upgradeSchema(db, aclMetadata, objUnique)
       IN  /\ aclMetadata' = out.aclMetadata
           /\ objUnique' = out.objUnique
           /\ call' = [NoCall EXCEPT !.op = "upgradeSchema",
                         !.arg = getSchemaVersion(aclMetadata),
                         !.raised = out.raised, !.printed = out.printed]
           /\ UNCHANGED <<db, nextObjId, context, observed, lastOp, sess>>

\* ------------------------------------------- calls run statement by statement
\* The tables as connection p sees them: the committed rows, less those its
\* open transaction deleted, plus those it inserted.
View(p) ==
    [objects |-> db.objects \cup sess[p].ins.objects,
     owners |-> db.owners \cup sess[p].ins.owners,
     rules |-> [r \in BagToSet(db.rules) \ sess[p].del |-> db.rules[r]]
                 (+) sess[p].ins.rules]

\* InnoDB makes a statement that writes a rule key wait while the open
\* transaction of another connection holds that key.
LockedByOther(p, row) == \E q \in Sessions \ {p} : row \in sess[q].held

\* No concurrent caller has a call under way or a transaction open.
Quiet == \A p \in Sessions : sess[p].pc = "idle"

\* The pair and access type the concurrent grant and revoke calls are for.
RaceObjectClass == "document"
RaceObjectId == 42
RaceAccessType == "edit"

\* A caller calls grant or revoke on its connection, inside a transaction it
\* opened (txn) or on a connection that commits each statement.
CallLedger(p, S) ==
    /\ LayoutKnown
    /\ sess[p].pc = "idle"
    /\ \E op \in {"grant", "revoke"}, granteeId \in S.grantees, txn \in BOOLEAN :
         sess' = [sess EXCEPT ![p] = [NoSession EXCEPT !.pc = "lookup",
                     !.op = op, !.userId = granteeId, !.txn = txn]]
    /\ UNCHANGED <<db, nextObjId, aclMetadata, objUnique, context, observed,
                   call, lastOp>>

\* grant and revoke up to accessCtlObjectId = row['id']: the SELECT, fetchone,
\* the raise of object not found.
LookupObject(p) ==
    /\ sess[p].pc = "lookup"
    /\ \E id \in fetchone(SelectObjectIds(View(p), RaceObjectClass,
                                           RaceObjectId)) :
         sess' = [sess EXCEPT ![p] =
                    IF ObjectNotFound(id)
                    THEN [@ EXCEPT !.pc = "returned",
                                   !.raised = "ACLAccessPolicy.Error"]
                    ELSE [@ EXCEPT !.pc = "write", !.acoId = id]]
    /\ UNCHANGED <<db, nextObjId, aclMetadata, objUnique, context, observed,
                   call, lastOp>>

\* The INSERT of grant with its except clause, to the return.  A duplicate
\* key error leaves a lock on the key it met.
InsertRule(p) ==
    /\ sess[p].pc = "write" /\ sess[p].op = "grant"
    /\ LET row == RuleRow(sess[p].acoId, sess[p].userId, RaceAccessType)
           err == InsertRuleError(View(p), row)
       IN  /\ ~ LockedByOther(p, row)
           /\ db' = IF err = "none" /\ ~ sess[p].txn THEN WithRule(db, row)
                    ELSE db
           /\ sess' = [sess EXCEPT ![p] =
                 [@ EXCEPT !.pc = "returned",
                    !.raised = IF err = "none" \/ GrantAbsorbs(err)
                               THEN "none" ELSE ExceptionClass(err),
                    !.ins = IF err = "none" /\ sess[p].txn
                            THEN WithRule(@, row) ELSE @,
                    !.held = IF sess[p].txn /\ err \in {"none", "DUP_ENTRY"}
                             THEN @ \cup {row} ELSE @]]
    /\ UNCHANGED <<nextObjId, aclMetadata, objUnique, context, observed,
                   call, lastOp>>

\* The DELETE of revoke, to the return.
DeleteRuleStep(p) ==
    /\ sess[p].pc = "write" /\ sess[p].op = "revoke"
    /\ LET row == RuleRow(sess[p].acoId, sess[p].userId, RaceAccessType)
       IN  /\ ~ LockedByOther(p, row)
           /\ db' = IF sess[p].txn THEN db ELSE DeleteRule(db, row)
           /\ sess' = [sess EXCEPT ![p] =
                 [@ EXCEPT !.pc = "returned",
                    !.del = IF sess[p].txn
                            THEN @ \cup ({row} \cap BagToSet(db.rules)) ELSE @,
                    !.held = IF sess[p].txn THEN @ \cup {row} ELSE @]]
    /\ UNCHANGED <<nextObjId, aclMetadata, objUnique, context, observed,
                   call, lastOp>>

\* The caller that opened a transaction ends it after the call returned:
\* commit makes its rows the committed ones, rollback drops them.
EndTransaction(p) ==
    /\ sess[p].pc = "returned" /\ sess[p].txn /\ sess[p].ended = "open"
    /\ \E how \in {"commit", "rollback"} :
         /\ db' = IF how = "commit" THEN View(p) ELSE db
         /\ sess' = [sess EXCEPT ![p] =
               [@ EXCEPT !.ins = EmptyTables, !.del = {}, !.held = {},
                         !.ended = how]]
    /\ UNCHANGED <<nextObjId, aclMetadata, objUnique, context, observed,
                   call, lastOp>>

\* if transaction: cursor.execute('BEGIN')
CreateBeginsNever(transaction) == FALSE
CreateBegins(transaction) == transaction

\* except: if transaction: database.rollback()
CreateRollsBackAlways(transaction) == TRUE
CreateRollsBack(transaction) == transaction

\* else: if transaction: database.commit()
CreateCommits(transaction) == transaction

\* A caller calls addAccessCtlObject on its connection, inside a transaction
\* it opened (txn) or on a connection that commits each statement.
CallCreate(p, S) ==
    /\ LayoutKnown
    /\ sess[p].pc = "idle"
    /\ \E objectId \in S.objectIds, ownerId \in S.owners,
          transaction \in S.transactions, fault \in S.faults, txn \in BOOLEAN :
         sess' = [sess EXCEPT ![p] = [NoSession EXCEPT !.pc = "begin",
                     !.op = "create", !.objectId = objectId,
                     !.userId = ownerId, !.transaction = transaction,
                     !.fault = fault, !.txn = txn]]
    /\ UNCHANGED <<db, nextObjId, aclMetadata, objUnique, context, observed,
                   call, lastOp>>

\* BEGIN commits what the connection's open transaction holds and opens one.
BeginStep(p) ==
    /\ sess[p].pc = "begin"
    /\ IF CreateBegins(sess[p].transaction)
       THEN /\ db' = View(p)
            /\ sess' = [sess EXCEPT ![p] =
                  [@ EXCEPT !.pc = "insObject", !.txn = TRUE,
                            !.ins = EmptyTables, !.del = {}, !.held = {},
                            !.log = Append(@, "BEGIN")]]
       ELSE /\ db' = db
            /\ sess' = [sess EXCEPT ![p] = [@ EXCEPT !.pc = "insObject"]]
    /\ UNCHANGED <<nextObjId, aclMetadata, objUnique, context, observed,
                   call, lastOp>>

\* The except branch of addAccessCtlObject after a statement raised err.
CreateFailed(p, err) ==
    /\ db' = db
    /\ sess' = [sess EXCEPT ![p] =
          IF CreateRollsBack(sess[p].transaction)
          THEN [@ EXCEPT !.pc = "returned", !.raised = err,
                         !.ins = Rollback(EmptyTables, @), !.del = {},
                         !.held = {}, !.txn = FALSE, !.ended = "rollback",
                         !.log = Append(@, "ROLLBACK")]
          ELSE [@ EXCEPT !.pc = "returned", !.raised = err]]

WithBothRules(d, rows) == WithRule(WithRule(d, rows[1]), rows[2])

\* The tables d after the INSERT of row (of both rows of executemany) into
\* table.
Inserted(table, d, row) ==
    CASE table = "accessControlObjects" -> WithObject(d, row)
      [] table = "accessControlOwners" -> WithOwner(d, row)
      [] table = "accessControlRules" -> WithRule(d, row)
      [] table = "accessControlRules (two rows)" -> WithBothRules(d, row)

\* One INSERT of addAccessCtlObject: the rows go to the connection's open
\* transaction, or are committed at once when it has none.
CreateStatement(p, ok, table, row, err, nextPc) ==
    IF err = "none"
    THEN /\ db' = IF sess[p].txn THEN db ELSE Inserted(table, db, row)
         /\ sess' = [sess EXCEPT ![p] =
               [ok EXCEPT !.pc = nextPc,
                          !.ins = IF sess[p].txn THEN Inserted(table, @, row)
                                  ELSE @]]
    ELSE CreateFailed(p, err)

\* InnoDB makes the INSERT of a pair wait while the open transaction of
\* another connection holds an uncommitted row for that pair.
PairLockedByOther(p, row) ==
    /\ objUnique
    /\ \E q \in Sessions \ {p} :
          SelectObjectIds(sess[q].ins, row.objectClass, row.objectId) # {}

\* INSERT INTO accessControlObjects and acoId = database.insert_id()
InsertObjectStep(p) ==
    /\ sess[p].pc = "insObject"
    /\ nextObjId <= MaxObjId
    /\ LET row == ObjectRow(nextObjId, RaceObjectClass, sess[p].objectId)
           err == IF sess[p].fault = 1 THEN "OperationalError"
                  ELSE InsertObjectError(View(p), objUnique, row)
       IN  /\ ~ PairLockedByOther(p, row)
           /\ nextObjId' = IF sess[p].fault = 1 THEN nextObjId
                           ELSE nextObjId + 1
           /\ CreateStatement(p, [sess[p] EXCEPT !.acoId = nextObjId],
                              "accessControlObjects", row, err, "insOwner")
    /\ UNCHANGED <<aclMetadata, objUnique, context, observed, call, lastOp>>

\* INSERT INTO accessControlOwners
InsertOwnerStep(p) ==
    /\ sess[p].pc = "insOwner"
    /\ LET row == OwnerRow(sess[p].acoId, sess[p].userId)
           err == IF sess[p].fault = 2 THEN "OperationalError"
                  ELSE InsertOwnerError(View(p), row)
       IN  CreateStatement(p, sess[p], "accessControlOwners", row, err,
                           "insRules")
    /\ UNCHANGED <<nextObjId, aclMetadata, objUnique, context, observed,
                   call, lastOp>>

\* cursor.executemany of the two rules: the first of two statements, or
\* both rows in one multi-row INSERT that fails as a whole.
InsertRulesStep(p) ==
    /\ sess[p].pc = "insRules"
    /\ LET row1 == RuleRow(sess[p].acoId, sess[p].userId, OwnerAccessTypes[1])
           row2 == RuleRow(sess[p].acoId, sess[p].userId, OwnerAccessTypes[2])
           e3 == IF sess[p].fault = 3 THEN "OperationalError"
                 ELSE ExceptionClass(InsertRuleError(View(p), row1))
           e4 == IF sess[p].fault = 4 THEN "OperationalError"
                 ELSE ExceptionClass(InsertRuleError(View(p), row2))
       IN  \/ CreateStatement(p, sess[p], "accessControlRules", row1, e3,
                              "insRule2")
           \/ CreateStatement(p, sess[p], "accessControlRules (two rows)",
                              <<row1, row2>>,
                              IF e3 # "none" THEN e3 ELSE e4, "finish")
    /\ UNCHANGED <<nextObjId, aclMetadata, objUnique, context, observed,
                   call, lastOp>>

\* The second statement of executemany.
InsertRule2Step(p) ==
    /\ sess[p].pc = "insRule2"
    /\ LET row2 == RuleRow(sess[p].acoId, sess[p].userId, OwnerAccessTypes[2])
           e4 == IF sess[p].fault = 4 THEN "OperationalError"
                 ELSE ExceptionClass(InsertRuleError(View(p), row2))
       IN  CreateStatement(p, sess[p], "accessControlRules", row2, e4,
                           "finish")
    /\ UNCHANGED <<nextObjId, aclMetadata, objUnique, context, observed,
                   call, lastOp>>

\* The else branch: commit when transaction, and return acoId.
FinishCreate(p) ==
    /\ sess[p].pc = "finish"
    /\ IF CreateCommits(sess[p].transaction)
       THEN /\ db' = View(p)
            /\ sess' = [sess EXCEPT ![p] =
                  [@ EXCEPT !.pc = "returned", !.ins = EmptyTables,
                            !.del = {}, !.held = {}, !.txn = FALSE,
                            !.ended = "commit", !.log = Append(@, "COMMIT")]]
       ELSE /\ db' = db
            /\ sess' = [sess EXCEPT ![p] = [@ EXCEPT !.pc = "returned"]]
    /\ UNCHANGED <<nextObjId, aclMetadata, objUnique, context, observed,
                   call, lastOp>>

\* Concurrent callers of addAccessCtlObject, statement by statement.
StepsNext(S) ==
    \/ \E p \in Sessions : CallCreate(p, S)
    \/ \E p \in Sessions : BeginStep(p)
    \/ \E p \in Sessions : InsertObjectStep(p)
    \/ \E p \in Sessions : InsertOwnerStep(p)
    \/ \E p \in Sessions : InsertRulesStep(p)
    \/ \E p \in Sessions : InsertRule2Step(p)
    \/ \E p \in Sessions : FinishCreate(p)
    \/ \E p \in Sessions : EndTransaction(p)

\* Objects are registered and rules granted before the concurrent callers
\* come; then their calls run interleaved.
RaceNext(S) ==
    \/ Quiet /\ AddAccessCtlObject(S)
    \/ Quiet /\ Grant(S)
    \/ \E p \in Sessions : CallLedger(p, S)
    \/ \E p \in Sessions : LookupObject(p)
    \/ \E p \in Sessions : InsertRule(p)
    \/ \E p \in Sessions : DeleteRuleStep(p)
    \/ \E p \in Sessions : EndTransaction(p)

NextIn(S) ==
    \/ Grant(S)
    \/ Revoke(S)
    \/ AddAccessCtlObject(S)
    \/ VerifyAccessACL(S)
    \/ VerifyAccessOwner(S)
    \/ Start(S)
    \/ UpgradeSchema

\* ------------------------------------------------------- specifications
\* Object creation in full: both layouts, valid, unknown and null owners,
\* with and without a transaction, a storage fault at every statement; the
\* ledger and the policies on the whole and partial objects this leaves.
CreateInputs ==
    [objectIds |-> ObjectIds, owners |-> {7, 8, NULL}, grantees |-> {9},
     grantTypes |-> {"edit"}, users |-> {7, 9, NULL},
     accessTypes |-> AccessTypes,
     handles |-> {"database"}, ledgerFaults |-> {0},
     transactions |-> BOOLEAN, faults |-> Faults, configs |-> {DefaultConfig}]

SpecCreate == InitWith({"1", "2"}, {}) /\ [][NextIn(CreateInputs)]_vars

\* Grant, revoke and verify in full on the version 2 layout: valid, unknown
\* and null grantees, every access type, on objects created whole.
LedgerInputs ==
    [objectIds |-> ObjectIds, owners |-> {7}, grantees |-> {9, 8, NULL},
     grantTypes |-> AccessTypes, users |-> Principals,
     accessTypes |-> AccessTypes,
     handles |-> {"database"}, ledgerFaults |-> {0},
     transactions |-> {TRUE}, faults |-> {0}, configs |-> {HostConfig}]

Spec == InitWith({"2"}, {}) /\ [][NextIn(LedgerInputs)]_vars

\* The same, following the grant and revoke calls made for the non-owners
\* of one object.
Watched == {<<"document", 42, g, a>> : g \in {9, 8}, a \in AccessTypes}

SpecHistory == InitWith({"2"}, Watched) /\ [][NextIn(LedgerInputs)]_vars

\* Start under every marker state and both configurations; the ledger
\* called with a connection, with a cursor and with neither, a storage
\* fault at either statement of grant and revoke.
StartInputs ==
    [objectIds |-> {42}, owners |-> {7}, grantees |-> {9},
     grantTypes |-> {"edit"}, users |-> {7, 9}, accessTypes |-> {"edit"},
     handles |-> {"none", "database", "cursor"}, ledgerFaults |-> LedgerFaults,
     transactions |-> {TRUE}, faults |-> {0},
     configs |-> {DefaultConfig, HostConfig}]

SpecStart == InitWith(MetadataStates, {}) /\ [][NextIn(StartInputs)]_vars

\* The upgrade from every stored version, on tables that hold one pair
\* once or (version 1 only) twice.
UpgradeInputs ==
    [objectIds |-> {42}, owners |-> {7}, grantees |-> {9},
     grantTypes |-> {"edit"}, users |-> {7, 9}, accessTypes |-> {"edit"},
     handles |-> {"database"}, ledgerFaults |-> {0},
     transactions |-> {TRUE}, faults |-> {0},
     configs |-> {DefaultConfig}]

SpecUpgrade == InitWith({"1", "2", "3"}, {}) /\ [][NextIn(UpgradeInputs)]_vars

\* Two callers racing grant and revoke for one tuple, the grantee a user
\* or no user, on a registered or unregistered pair, with or without the
\* rule granted before.
RaceInputs ==
    [objectIds |-> ObjectIds, owners |-> {7}, grantees |-> {9, 8},
     grantTypes |-> {"edit"}, users |-> {9}, accessTypes |-> {"edit"},
     handles |-> {"database"}, ledgerFaults |-> {0},
     transactions |-> {TRUE}, faults |-> {0}, configs |-> {DefaultConfig}]

SpecRace == InitWith({"2"}, {}) /\ [][RaceNext(RaceInputs)]_vars

\* Two callers of addAccessCtlObject, for one pair or two, a valid or an
\* unknown owner, with and without transaction, a storage fault at any
\* statement, on either layout.
StepsInputs ==
    [objectIds |-> ObjectIds, owners |-> {7, 8}, grantees |-> {9},
     grantTypes |-> {"edit"}, users |-> {7}, accessTypes |-> {"edit"},
     handles |-> {"database"}, ledgerFaults |-> {0},
     transactions |-> BOOLEAN, faults |-> Faults, configs |-> {DefaultConfig}]

SpecSteps == InitWith({"1", "2"}, {}) /\ [][StepsNext(StepsInputs)]_vars

\* Grant and revoke for the owner and for another user, and both policies
\* asked about each.
FrameInputs ==
    [objectIds |-> ObjectIds, owners |-> {7}, grantees |-> {7, 9},
     grantTypes |-> AccessTypes, users |-> {7, 9},
     accessTypes |-> AccessTypes,
     handles |-> {"database"}, ledgerFaults |-> {0},
     transactions |-> {TRUE}, faults |-> {0}, configs |-> {DefaultConfig}]

SpecFrame == InitWith({"2"}, {}) /\ [][NextIn(FrameInputs)]_vars

\* ================================================================ claims
\* What the last call was asked to act on.
CallObjectIds(d) == SelectObjectIds(d, call.objectClass, call.objectId)

\* ------------------------------------------------------------------- C1
\* C1: addAccessCtlObject with transaction=True is all-or-nothing.  A call
\* that raises (at the object insert, the owner insert or either rule
\* insert) leaves the tables as they were before it: no row it wrote is
\* present.  A call that returns leaves its four rows, and nothing else,
\* added: the object under the returned id, its owner row, and the owner's
\* "read" and "edit" rules.
C1_CreateAllOrNothing ==
    [][(call'.op = "addAccessCtlObject" /\ call'.arg = "transaction") =>
         IF call'.raised # "none"
         THEN /\ db' = db
              /\ call'.raised \in {"IntegrityError", "OperationalError"}
              /\ call'.fault = 0 => call'.raised = "IntegrityError"
         ELSE LET id == call'.returned
                  rd == RuleRow(id, call'.userId, "read")
                  ed == RuleRow(id, call'.userId, "edit")
              IN  /\ id = nextObjId
                  /\ db'.objects = db.objects \cup
                        {ObjectRow(id, call'.objectClass, call'.objectId)}
                  /\ db'.owners = db.owners \cup {OwnerRow(id, call'.userId)}
                  /\ db'.rules = db.rules (+) SetToBag({rd, ed})
                  /\ ~ BagIn(rd, db.rules) /\ ~ BagIn(ed, db.rules)
                  /\ id \notin {o.id : o \in db.objects}
      ]_vars

\* A transactional call failed at the second rule insert, after it had
\* written the object, its owner and the "read" rule; none of them is there.
C1_Witness ==
    /\ call.op = "addAccessCtlObject" /\ call.arg = "transaction"
    /\ call.fault = 4 /\ call.raised = "OperationalError"
    /\ CallObjectIds(db) = {}
    /\ db.objects # {}

\* ------------------------------------------------------------------- C2
\* C2: right after addAccessCtlObject(objectClass, objectId, ownerId) has
\* returned id, the registered policies find the owner: the ownership lookup
\* for (objectClass, objectId, ownerId) and the grant lookups for
\* (objectClass, objectId, ownerId, "read") and (..., "edit") each return,
\* and return that id.
C2_OwnerLookupsAfterCreate ==
    (call.op = "addAccessCtlObject" /\ call.raised = "none") =>
        \A name \in DOMAIN context.policies :
            LET self == context.policies[name]
                found == {[raised |-> "none", returned |-> call.returned]}
            IN  /\ self.cls = "OwnerAccessPolicy" =>
                      OwnerAccessPolicy_verify(self, db, call.userId,
                          call.objectClass, call.objectId) = found
                /\ self.cls = "ACLAccessPolicy" =>
                      \A accessType \in {"read", "edit"} :
                          ACLAccessPolicy_verify(self, db, call.userId,
                              call.objectClass, call.objectId, accessType)
                            = found

\* A second object has just been created while the policies are registered.
C2_Witness ==
    /\ call.op = "addAccessCtlObject" /\ call.raised = "none"
    /\ DOMAIN context.policies # {}
    /\ Cardinality(db.objects) = 2
    /\ call.returned = 2

\* ------------------------------------------------------------------- C3
\* A step is a grant given a handle, on a pair that is registered.
GrantOnRegistered ==
    /\ call'.op = "grant" /\ call'.arg # "none"
    /\ SelectObjectIds(db, call'.objectClass, call'.objectId) # {}

\* What C3 says of such a step: it raises nothing and leaves exactly one
\* rule row for (object, g, a); and when the call before it was the same
\* grant, returned normally, it leaves the tables as that call left them.
GrantIsIdempotent ==
    /\ call'.raised = "none"
    /\ \A id \in SelectObjectIds(db', call'.objectClass, call'.objectId) :
          CopiesIn(RuleRow(id, call'.userId, call'.accessType), db'.rules) = 1
    /\ (/\ call.op = "grant" /\ call.raised = "none"
        /\ call.objectClass = call'.objectClass
        /\ call.objectId = call'.objectId
        /\ call.userId = call'.userId
        /\ call.accessType = call'.accessType) => db' = db

C4_RevokeAbsentIsNoOp ==
    [][(/\ call'.op = "revoke" /\ call'.arg # "none"
        /\ SelectObjectIds(db, call'.objectClass, call'.objectId) # {}
        /\ \/ \A id \in SelectObjectIds(db, call'.objectClass, call'.objectId) :
                 ~ BagIn(RuleRow(id, call'.userId, call'.accessType), db.rules)
           \/ /\ call.op = "revoke" /\ call.raised = "none"
              /\ call.objectClass = call'.objectClass
              /\ call.objectId = call'.objectId
              /\ call.userId = call'.userId
              /\ call.accessType = call'.accessType)
       => (call'.raised = "none" /\ db' = db)
      ]_vars

\* A revoke on a registered object deleted nothing and returned normally,
\* with rules of other grantees in the table.
C4_Witness ==
    /\ call.op = "revoke" /\ call.raised = "none" /\ call.affected = 0
    /\ CallObjectIds(db) # {}
    /\ db.rules # EmptyBag

\* ------------------------------------------------------------------- C5
\* The last call was an ACL verify of a watched tuple, by a principal that
\* owns no object registered under the pair.
VerifiedTuple ==
    <<call.objectClass, call.objectId, call.userId, call.accessType>>

WatchedNonOwnerVerify ==
    /\ call.op = "aclVerify"
    /\ VerifiedTuple \in DOMAIN lastOp
    /\ CallObjectIds(db) # {}
    /\ \A id \in CallObjectIds(db) : OwnerRow(id, call.userId) \notin db.owners

\* C5: on a registered object an ACL verify for a non-owner returns the
\* object's id exactly when the most recent of the grant and revoke calls
\* for that (userId, objectClass, objectId, accessType) was a grant, and
\* raises the forbidden error when there was none or it was a revoke.
C5_VerifyFollowsLastGrantOrRevoke ==
    WatchedNonOwnerVerify =>
        IF lastOp[VerifiedTuple] = "grant"
        THEN call.raised = "none" /\ call.returned \in CallObjectIds(db)
        ELSE call.raised = context.forbiddenExceptionCls

\* ------------------------------------------------------------------- C6
\* C6: under both policies a verify with a null userId raises the
\* configured forbidden error, whatever rows the tables hold.
C6_NullUserForbidden ==
    (call.op \in {"aclVerify", "ownerVerify"} /\ call.userId = NULL) =>
        /\ call.raised = context.forbiddenExceptionCls
        /\ call.returned = NULL

\* An ownership verify with a null userId was refused on an object that has
\* an owner row and rule rows.
C6_Witness ==
    /\ call.op = "ownerVerify" /\ call.userId = NULL
    /\ call.raised = "HostForbidden"
    /\ \E id \in CallObjectIds(db) :
          /\ \E r \in db.owners : r.accessCtlObjectId = id
          /\ \E r \in BagToSet(db.rules) : r.accessCtlObjectId = id

\* ------------------------------------------------------------------- C7
\* The ids of the objects registered under the last call's pair that have
\* a rule row, or an owner row, for the last call's userId.
GrantedIds ==
    {id \in CallObjectIds(db) :
        BagIn(RuleRow(id, call.userId, call.accessType), db.rules)}
OwnedIds ==
    {id \in CallObjectIds(db) : OwnerRow(id, call.userId) \in db.owners}

\* C7: for a non-null userId, ACL verify returns exactly when a rule row
\* (object, userId, accessType) exists for an object registered under
\* (objectClass, objectId), and ownership verify exactly when an owner row
\* (object, userId) exists; what is returned is the id of that object; in
\* every other case the configured forbidden error is raised.
C7_VerifyIffRowExists ==
    /\ (call.op = "aclVerify" /\ call.userId # NULL) =>
          IF GrantedIds # {}
          THEN call.raised = "none" /\ call.returned \in GrantedIds
          ELSE call.raised = context.forbiddenExceptionCls
    /\ (call.op = "ownerVerify" /\ call.userId # NULL) =>
          IF OwnedIds # {}
          THEN call.raised = "none" /\ call.returned \in OwnedIds
          ELSE call.raised = context.forbiddenExceptionCls

\* An ACL verify was refused for a user who holds the rule on another
\* object, the requested object being registered.
C7_Witness ==
    /\ call.op = "aclVerify" /\ call.userId # NULL
    /\ call.raised = context.forbiddenExceptionCls
    /\ CallObjectIds(db) # {}
    /\ \E r \in BagToSet(db.rules) :
          /\ r.granteeId = call.userId /\ r.accessType = call.accessType
          /\ r.accessCtlObjectId \notin CallObjectIds(db)

\* ------------------------------------------------------------------- C8
\* C8: grant and revoke for a pair with no registered object raise the
\* object-not-found error and leave every table as it was.
C8_UnregisteredObjectNotFound ==
    [][(/\ call'.op \in {"grant", "revoke"} /\ call'.arg # "none"
        /\ SelectObjectIds(db, call'.objectClass, call'.objectId) = {})
       => (call'.raised = "ACLAccessPolicy.Error" /\ db' = db)
      ]_vars

\* A revoke was refused for an unregistered pair while the grantee holds
\* that rule on another object.
C8_Witness ==
    /\ call.op = "revoke" /\ call.raised = "ACLAccessPolicy.Error"
    /\ CallObjectIds(db) = {}
    /\ \E r \in BagToSet(db.rules) :
          r.granteeId = call.userId /\ r.accessType = call.accessType

\* ------------------------------------------------------------------- C9
\* C9: the only insert failure grant absorbs is the violation of the UNIQUE
\* key on (accessCtlObjectId, granteeId, accessType), so that a grant that
\* returns normally leaves the rule row present.
C9_OnlyDuplicateAbsorbed ==
    (call.op = "grant" /\ call.arg # "none" /\ call.raised = "none") =>
        /\ call.sqlerr \in {"none", "DUP_ENTRY"}
        /\ \E id \in CallObjectIds(db) :
              BagIn(RuleRow(id, call.userId, call.accessType), db.rules)

\* ------------------------------------------------------------------ C10
\* C10: start checks the schema version before it instantiates anything.
\* Whenever a policy instance is registered, start read the marker and it
\* was "2"; a start that finds no marker table, no version row or another
\* version raises, and no instance has been created.
C10_NoPolicyWithoutVersion2 ==
    /\ DOMAIN context.policies # {} =>
          (observed = aclSchemaVersion /\ aclMetadata = aclSchemaVersion)
    /\ (call.op = "start" /\ observed # aclSchemaVersion) =>
          /\ call.raised \in {"SchemaNotInstalled", "SchemaVersionMismatch"}
          /\ DOMAIN context.policies = {}
          /\ context.shortcutAttrs = <<>>
    /\ aclMetadata # aclSchemaVersion => DOMAIN context.policies = {}

\* Start has registered the built-in policies and the host's own.
C10_Witness ==
    /\ call.op = "start" /\ call.raised = "none" /\ observed = "2"
    /\ DOMAIN context.policies =
          {"aclAccessPolicy", "ownerAccessPolicy", "customPolicy"}

\* ------------------------------------------------------------------ C11
\* C11: upgradeSchema run on a stored version other than 1 changes neither
\* the tables, the UNIQUE key nor the version row: from 2 it reports up to
\* date, from any other version it reports that the upgrade is only
\* possible from version 1; it raises nothing.
C11_UpgradeOtherVersionNoOp ==
    [][(call'.op = "upgradeSchema" /\ aclMetadata # "1") =>
          /\ aclMetadata' = aclMetadata /\ objUnique' = objUnique /\ db' = db
          /\ call'.raised = "none"
          /\ call'.printed = IF aclMetadata = "2" THEN "up to date"
                             ELSE "only possible from version 1"
      ]_vars

\* An upgrade was turned away on version 3 with an object registered.
C11_Witness ==
    /\ call.op = "upgradeSchema" /\ call.arg = "3"
    /\ call.printed = "only possible from version 1"
    /\ aclMetadata = "3" /\ db.objects # {}

BothReturned(op) ==
    /\ \A p \in Sessions :
          /\ sess[p].op = op /\ sess[p].pc = "returned"
          /\ sess[p].raised # "ACLAccessPolicy.Error"
          /\ sess[p].ended # "rollback"
    /\ \A p, q \in Sessions : sess[p].userId = sess[q].userId

\* The copies of the raced rule row that exist, committed or pending in a
\* caller's open transaction.
RaceRowCount ==
    LET g == CHOOSE g \in {sess[p].userId : p \in Sessions} : TRUE
        Copies(rules) ==
            BagCardinality([r \in {x \in BagToSet(rules) :
                                     /\ x.granteeId = g
                                     /\ x.accessType = RaceAccessType
                                     /\ x.accessCtlObjectId \in
                                          {sess[p].acoId : p \in Sessions}}
                            |-> rules[r]])
    IN  Copies([r \in BagToSet(db.rules)
                     \ UNION {sess[p].del : p \in Sessions} |-> db.rules[r]])
        + Copies(sess["a"].ins.rules) + Copies(sess["b"].ins.rules)

RowsOf(d, id, ownerId) ==
    (IF \E o \in d.objects : o.id = id THEN 1 ELSE 0)
    + (IF OwnerRow(id, ownerId) \in d.owners THEN 1 ELSE 0)
    + CopiesIn(RuleRow(id, ownerId, "read"), d.rules)
    + CopiesIn(RuleRow(id, ownerId, "edit"), d.rules)

\* C14: at every point of an addAccessCtlObject call with transaction=True,
\* from its BEGIN to its return, the committed tables, which are what a
\* reader under read-committed isolation is given, hold none of the call's
\* object, owner and two rule rows, or all four.
C14_ReaderSeesNoneOrAll ==
    \A p \in Sessions :
        (/\ sess[p].op = "create" /\ sess[p].transaction
         /\ sess[p].pc # "begin" /\ sess[p].acoId # NULL) =>
            RowsOf(db, sess[p].acoId, sess[p].userId) \in {0, 4}

\* A call with transaction=True on a connection that commits each statement
\* has inserted the object and its owner and not yet the rules, and another
\* has committed a whole object.
C14_Witness ==
    \E p, q \in Sessions :
        /\ sess[p].op = "create" /\ sess[p].transaction
        /\ sess[p].log = <<"BEGIN">> /\ sess[p].pc = "insRules"
        /\ RowsOf(sess[p].ins, sess[p].acoId, sess[p].userId) = 2
        /\ RowsOf(db, sess[p].acoId, sess[p].userId) = 0
        /\ sess[q].op = "create" /\ sess[q].transaction
        /\ sess[q].pc = "returned"
        /\ RowsOf(db, sess[q].acoId, sess[q].userId) = 4

\* ------------------------------------------------------------------ C20
\* A call with transaction=False made inside a transaction its caller
\* opened and has not ended.
PendingCreate(p) ==
    /\ sess[p].op = "create" /\ ~ sess[p].transaction
    /\ sess[p].txn /\ sess[p].ended = "open"

\* C20: addAccessCtlObject with transaction=False issues no BEGIN, commit or
\* rollback on any path.  Made inside the caller's transaction, a call that
\* returns leaves its four rows pending there and none committed; a call
\* that raises part-way leaves the rows it had inserted pending there and
\* none committed; the caller's commit then commits exactly those rows and
\* the caller's rollback drops them.
C20_NoTransactionNoControl ==
    [][\A p \in Sessions :
         LET id == sess'[p].acoId
             u == sess'[p].userId
         IN
         /\ (sess'[p].op = "create" /\ ~ sess'[p].transaction) =>
                sess'[p].log = <<>>
         /\ (PendingCreate(p)' /\ id # NULL) => RowsOf(db', id, u) = 0
         /\ (PendingCreate(p)' /\ sess'[p].pc = "returned") =>
                IF sess'[p].raised = "none"
                THEN RowsOf(sess'[p].ins, id, u) = 4
                ELSE /\ sess'[p].raised \in {"IntegrityError", "OperationalError"}
                     /\ sess'[p].ins = sess[p].ins
                     /\ id # NULL => RowsOf(sess'[p].ins, id, u) \in 1 .. 3
         /\ (PendingCreate(p) /\ sess[p].pc = "returned"
                 /\ sess'[p].ended # "open") =>
                IF sess'[p].ended = "commit"
                THEN db' = View(p)
                     /\ RowsOf(db', id, u) = RowsOf(sess[p].ins, id, u)
                ELSE db' = db
      ]_vars

\* A call with transaction=False raised at the rules with its object and
\* owner rows pending in the caller's transaction, and the caller's commit
\* has committed those two rows.
C20_Witness ==
    \E p \in Sessions :
        /\ sess[p].op = "create" /\ ~ sess[p].transaction
        /\ sess[p].raised = "OperationalError" /\ sess[p].log = <<>>
        /\ sess[p].ended = "commit"
        /\ RowsOf(db, sess[p].acoId, sess[p].userId) = 2

\* ------------------------------------------------------------------ C15
\* C15: under the version 2 layout no two rows of accessControlObjects
\* share an (objectClass, objectId) pair, whatever addAccessCtlObject, grant
\* and revoke calls were made; an addAccessCtlObject for a registered pair
\* raises and leaves the object, its owner row and its rules as they were.
C15_OneObjectPerPair ==
    [][/\ aclMetadata' = "2" => ~ DuplicatePairs(db')
       /\ (/\ call'.op = "addAccessCtlObject" /\ aclMetadata = "2"
           /\ SelectObjectIds(db, call'.objectClass, call'.objectId) # {})
          => (call'.raised # "none" /\ call'.returned = NULL /\ db' = db)
      ]_vars

\* An addAccessCtlObject without transaction, and without storage fault,
\* was refused for a pair whose object has a rule for a non-owner.
C15_Witness ==
    /\ call.op = "addAccessCtlObject" /\ call.arg = "notransaction"
    /\ call.fault = 0 /\ call.raised = "IntegrityError"
    /\ aclMetadata = "2"
    /\ \E id \in CallObjectIds(db) :
          /\ \E r \in db.owners : r.accessCtlObjectId = id
          /\ BagIn(RuleRow(id, 9, "edit"), db.rules)
          /\ Cardinality(CallObjectIds(db)) = 1

\* ------------------------------------------------------------------ C16
\* C16: addAccessCtlObject, grant and revoke each raise MissingArgument when
\* given neither a connection nor a cursor, and accept a connection as well
\* as a cursor.
C16_MissingArgument ==
    call.op \in {"addAccessCtlObject", "grant", "revoke"} =>
        IF call.handle = "none"
        THEN call.raised = "MissingArgument"
        ELSE call.raised \notin {"MissingArgument", "AttributeError"}

\* ------------------------------------------------------------------ C17
\* C17: start raises SchemaNotInstalled when aclMetadata does not exist or
\* holds no version row, SchemaVersionMismatch when the version row holds
\* another value than 2, and neither exactly when it holds 2.
C17_StartClassifiesFailure ==
    call.op = "start" =>
        /\ observed \in {"notable", "norow"} <=>
              call.raised = "SchemaNotInstalled"
        /\ observed \in {"1", "3"} <=> call.raised = "SchemaVersionMismatch"
        /\ observed = "2" <=> call.raised = "none"

\* Start found a table without version row.
C17_Witness ==
    /\ call.op = "start" /\ observed = "norow" /\ aclMetadata = "norow"
    /\ call.raised = "SchemaNotInstalled"

\* ------------------------------------------------------------------ C18
\* C18: grant and revoke called with a connection only have closed the
\* cursor they opened when they are left, whether by returning, by raising
\* object not found, after absorbing an integrity error or by passing on a
\* storage error; called with a cursor they have not closed it.
C18_CursorOwnership ==
    call.op \in {"grant", "revoke"} =>
        /\ call.handle = "database" => call.closed
        /\ call.handle = "cursor" => ~ call.closed

\* A grant called with a connection passed on the storage error of its
\* INSERT, having closed its cursor.
C18_Witness ==
    /\ call.op = "grant" /\ call.handle = "database" /\ call.fault = 2
    /\ call.raised = "OperationalError" /\ call.closed
    /\ CallObjectIds(db) # {}

\* ------------------------------------------------------------------ C19
\* The verdicts of an OwnerAccessPolicy instance on the tables d.
OwnerVerdicts(d) ==
    [u \in Principals, objectId \in ObjectIds |->
        OwnerAccessPolicy_verify(
            AccessPolicy("OwnerAccessPolicy", "defaultVerifier", "Forbidden"),
            d, u, "document", objectId)]

\* C19: grant and revoke leave accessControlObjects and accessControlOwners
\* as they were, and with them the verdict of the ownership policy for every
\* user and object; an owner whose read and edit rules were revoked is
\* refused by the ACL policy and still given the object's id by the
\* ownership policy.
C19_LedgerLeavesOwnership ==
    [][/\ call'.op \in {"grant", "revoke"} =>
             /\ db'.objects = db.objects /\ db'.owners = db.owners
             /\ OwnerVerdicts(db') = OwnerVerdicts(db)
       /\ (/\ call'.op \in {"aclVerify", "ownerVerify"}
           /\ \E id \in CallObjectIds(db)' :
                 /\ OwnerRow(id, call'.userId) \in db'.owners
                 /\ \A a \in AccessTypes :
                       ~ BagIn(RuleRow(id, call'.userId, a), db'.rules))
          => IF call'.op = "aclVerify"
             THEN call'.raised = context'.forbiddenExceptionCls
             ELSE call'.raised = "none"
                  /\ call'.returned \in CallObjectIds(db)'
      ]_vars

\* The ownership policy gave the owner the object's id after both rules of
\* the owner were revoked.
C19_Witness ==
    /\ call.op = "ownerVerify" /\ call.userId = 7 /\ call.raised = "none"
    /\ call.returned \in CallObjectIds(db)
    /\ \A r \in BagToSet(db.rules) : r.accessCtlObjectId # call.returned

====
